---- MODULE Spec2Model ----
(***************************************************************************)
(* Cycle-level model of the out-of-order pipeline simulator of             *)
(* src/src/simulator.rs: Simulator::simulate_cycle and the five stages it  *)
(* runs (execute, commit, issue, rename_and_dispatch, fetch_and_decode),   *)
(* driven by the loop of src/src/main.rs.  One step of the model is one    *)
(* call of simulate_cycle; the states of a behaviour are the snapshots     *)
(* main pushes to the log.                                                 *)
(*                                                                         *)
(* u64 registers are modelled at a reduced width (WordBits): TLC integers  *)
(* are 32 bits wide, so values are kept modulo 2^WordBits and wrap there.  *)
(***************************************************************************)
EXTENDS Integers, Sequences, FiniteSets, TLC

VARIABLES program, state, alus, writer, panicked

vars == <<program, state, alus, writer, panicked>>

-----------------------------------------------------------------------------
(* Sizes fixed by the program.                                             *)

NumArch == 32

NumPhys == 64

QueueCap == 32

NumAlus == 4

ExceptionAddr == 65536

(* Bounds of the model.                                                    *)

WordBits == 3

MaxShortLen == 2

MaxMidLen == 6

MaxChain == 38

Modulus == 2 ^ WordBits

ArchRegs == 0 .. (NumArch - 1)

PhysRegs == 0 .. (NumPhys - 1)

-----------------------------------------------------------------------------
(* Option<T> as a sequence of length 0 or 1.                               *)

None == << >>

Some(x) == << x >>

IsSome(o) == Len(o) > 0

Unwrap(o) == o[1]

(* Sequencing: F applied to the value of v, with v evaluated once (a Rust  *)
(* statement runs on the state the statements before it left).             *)
Then(v, F(_)) == CHOOSE r \in { F(x) : x \in {v} } : TRUE

(* The last PC that wrote a physical register; NoWriter before any write.  *)
NoWriter == 0 - 1

-----------------------------------------------------------------------------
(* Program text.  A line is its whitespace-separated tokens: ntok of them, *)
(* the mnemonic and three operand tokens.  An operand token is "xN" (k =   *)
(* "x"), a decimal literal (k = "imm") or, after renaming, "pN" (k = "p"). *)

X(n) == [k |-> "x", n |-> n]

Imm(v) == [k |-> "imm", n |-> v]

P(n) == [k |-> "p", n |-> n]

Line(op, d, s1, s2) == [ntok |-> 4, op |-> op, dest |-> d, src1 |-> s1, src2 |-> s2]

Malformed == [ntok |-> 1, op |-> "nop", dest |-> 0, src1 |-> Imm(0), src2 |-> Imm(0)]

(* str::trim_end_matches("i") on the mnemonics of the instruction set.     *)
TrimI(op) == IF op = "addi" THEN "add" ELSE op

RECURSIVE Rep(_, _)
Rep(x, k) == IF k = 0 THEN << >> ELSE << x >> \o Rep(x, k - 1)

RECURSIVE SeqsUpTo(_, _)
SeqsUpTo(S, n) ==
    IF n = 0 THEN { << >> }
    ELSE LET shorter == SeqsUpTo(S, n - 1)
         IN  shorter \cup { Append(p, x) : p \in { q \in shorter : Len(q) = n - 1 }, x \in S }

(* Short programs over a rich instruction set.                             *)
RichLines ==
    { Line(op, d, X(1), b) :
        op \in {"add", "sub", "mulu", "divu", "remu"},
        d \in {1, 2},
        b \in {X(0), X(2)} }
    \cup { Line("addi", d, X(0), Imm(v)) : d \in {1, 2}, v \in {3, Modulus - 1} }
    \cup { Malformed }

(* Longer programs over a few lines: a producer, its dependents, a fault.  *)
MidLines ==
    { Line("addi", 1, X(0), Imm(1)),
      Line("add", 2, X(1), X(1)),
      Line("divu", 2, X(1), X(0)) }

(* Long programs: an optional head followed by a run of one line.          *)
ChainHeads ==
    { << >>,
      << Line("divu", 3, X(0), X(0)) >>,
      << Line("addi", 1, X(0), Imm(1)), Line("mulu", 1, X(1), X(1)), Line("remu", 3, X(1), X(0)) >> }

ChainLines ==
    { Line("addi", 1, X(1), Imm(1)),
      Line("addi", 1, X(0), Imm(1)),
      Line("sub", 2, X(2), X(1)) }

(* A producer, with or without early readers, fillers that write another   *)
(* register, and a reader of the producer fetched three groups later.      *)
LateHeads ==
    { << Line("addi", 1, X(0), Imm(1)) >>,
      << Line("addi", 1, X(0), Imm(1)), Line("add", 3, X(1), X(1)),
         Line("add", 2, X(3), X(1)) >> }

LateReaders ==
    { h \o Rep(Line("addi", 2, X(0), Imm(1)), k - Len(h)) \o << Line("add", 2, X(1), X(1)) >> :
         h \in LateHeads, k \in 11 .. 13 }

Programs ==
    SeqsUpTo(RichLines, MaxShortLen)
    \cup SeqsUpTo(MidLines, MaxMidLen)
    \cup { h \o Rep(l, k) : h \in ChainHeads, l \in ChainLines, k \in (MaxChain - 6) .. MaxChain }
    \cup LateReaders

-----------------------------------------------------------------------------
(* Alu                                                                     *)

AluNew == [forwarding |-> None, instruction_queue |-> << >>, pipeline_stage1 |-> None]

(* The match of Alu::execute: the result and the exception flag.           *)
AluOp(op, a, b) ==
    CASE op \in {"add", "addi"} -> [ans |-> (a + b) % Modulus, exception |-> FALSE]
      [] op = "sub"  -> [ans |-> (a + Modulus - b) % Modulus, exception |-> FALSE]
      [] op = "mulu" -> [ans |-> (a * b) % Modulus, exception |-> FALSE]
      [] op = "divu" -> IF b = 0 THEN [ans |-> 0, exception |-> TRUE]
                                 ELSE [ans |-> a \div b, exception |-> FALSE]
      [] op = "remu" -> IF b = 0 THEN [ans |-> 0, exception |-> TRUE]
                                 ELSE [ans |-> a % b, exception |-> FALSE]

(* Alu::execute with the result put on the forwarding latch at once.       *)
AluExecute_OneStage(alu) ==
    LET q == alu.instruction_queue
    IN  [forwarding |->
            IF Len(q) = 0 THEN None
            ELSE LET instr == Head(q)
                     r == AluOp(instr.op_code, instr.op_a_value, instr.op_b_value)
                 IN  Some([reg |-> instr.dest_register, val |-> r.ans,
                           pc |-> instr.pc, exception |-> r.exception]),
         instruction_queue |-> IF Len(q) = 0 THEN q ELSE Tail(q),
         pipeline_stage1 |-> None]

AluExecute(alu) ==
    LET q == alu.instruction_queue
    IN  [forwarding |-> alu.pipeline_stage1,
         instruction_queue |-> IF Len(q) = 0 THEN q ELSE Tail(q),
         pipeline_stage1 |->
            IF Len(q) = 0 THEN None
            ELSE LET instr == Head(q)
                     r == AluOp(instr.op_code, instr.op_a_value, instr.op_b_value)
                 IN  Some([reg |-> instr.dest_register, val |-> r.ans,
                           pc |-> instr.pc, exception |-> r.exception])]

AluReset(alu) == AluNew

-----------------------------------------------------------------------------
(* SimulatorState::default and Simulator::new                              *)

StateDefault ==
    [pc |-> 0,
     physical_register_file |-> [p \in PhysRegs |-> 0],
     decoded_pcs |-> << >>,
     exception_pc |-> 0,
     exception |-> FALSE,
     register_map_table |-> [a \in ArchRegs |-> a],
     free_list |-> [i \in 1 .. (NumPhys - NumArch) |-> NumArch + i - 1],
     busy_bit_table |-> [p \in PhysRegs |-> FALSE],
     active_list |-> << >>,
     integer_queue |-> << >>,
     backpressure |-> FALSE]

Init ==
    /\ program \in Programs
    /\ state = StateDefault
    /\ alus = [i \in 1 .. NumAlus |-> AluNew]
    /\ writer = [p \in PhysRegs |-> NoWriter]
    /\ panicked = FALSE

(* The simulator as the stages see it: s.state, s.alus, and the two        *)
(* bookkeeping fields s.writer and s.panicked.                             *)
Sim == [state |-> state, alus |-> alus, writer |-> writer, panicked |-> panicked]

(* Simulator::done                                                         *)
DoneOf(prog, st) ==
    LET pc_finished == (st.pc = Len(prog)) \/ (st.pc = ExceptionAddr)
    IN  /\ pc_finished
        /\ Len(st.active_list) = 0
        /\ ~st.exception
        /\ Len(st.decoded_pcs) = 0

done == DoneOf(program, state)

-----------------------------------------------------------------------------
(* Simulator::execute                                                      *)

execute(s) ==
    IF s.state.exception THEN s
    ELSE [s EXCEPT !.alus = [i \in 1 .. NumAlus |-> AluExecute(s.alus[i])]]

-----------------------------------------------------------------------------
(* Simulator::commit                                                       *)

(* RollbackOne with the entry's old destination freed in place of the     *)
(* register currently mapped.                                              *)
RollbackOne_FreeOld(s) ==
    LET al == s.state.active_list
    IN  IF Len(al) = 0 THEN s
        ELSE LET entry == al[Len(al)]
                 logical_dest == entry.logical_destination
                 old_dest == entry.old_destination
                 curr_dest == s.state.register_map_table[logical_dest]
             IN  [s EXCEPT !.state.active_list = SubSeq(al, 1, Len(al) - 1),
                           !.state.free_list = Append(@, old_dest),
                           !.state.busy_bit_table[curr_dest] = FALSE,
                           !.state.register_map_table[logical_dest] = old_dest]

(* RollbackOne without the restore of the old mapping.                     *)
RollbackOne_KeepMap(s) ==
    LET al == s.state.active_list
    IN  IF Len(al) = 0 THEN s
        ELSE LET entry == al[Len(al)]
                 logical_dest == entry.logical_destination
                 curr_dest == s.state.register_map_table[logical_dest]
             IN  [s EXCEPT !.state.active_list = SubSeq(al, 1, Len(al) - 1),
                           !.state.free_list = Append(@, curr_dest),
                           !.state.busy_bit_table[curr_dest] = FALSE]

(* One iteration of the rollback loop: pop the tail entry, free the        *)
(* register currently mapped to its logical destination, restore the old.  *)
RollbackOne(s) ==
    LET al == s.state.active_list
    IN  IF Len(al) = 0 THEN s
        ELSE LET entry == al[Len(al)]
                 logical_dest == entry.logical_destination
                 old_dest == entry.old_destination
                 curr_dest == s.state.register_map_table[logical_dest]
             IN  [s EXCEPT !.state.active_list = SubSeq(al, 1, Len(al) - 1),
                           !.state.free_list = Append(@, curr_dest),
                           !.state.busy_bit_table[curr_dest] = FALSE,
                           !.state.register_map_table[logical_dest] = old_dest]

RECURSIVE Rollback(_, _)
Rollback(s, k) ==
    IF k = 0 THEN s ELSE Then(RollbackOne(s), LAMBDA t : Rollback(t, k - 1))

(* pop_ready_instr that pops the head without looking at its done flag.    *)
pop_ready_instr_NoDoneCheck(s) ==
    LET al == s.state.active_list
    IN  IF Len(al) > 0
        THEN LET front == al[1]
             IN  IF ~front.exception
                 THEN [result |-> Some(front), s |-> [s EXCEPT !.state.active_list = Tail(al)]]
                 ELSE [result |-> Some(front), s |-> s]
        ELSE [result |-> None, s |-> s]

(* Simulator::pop_ready_instr: the entry returned, and the state after.    *)
pop_ready_instr(s) ==
    LET al == s.state.active_list
    IN  IF Len(al) > 0
        THEN LET front == al[1]
             IN  IF front.done \/ front.exception
                 THEN IF ~front.exception
                      THEN [result |-> Some(front), s |-> [s EXCEPT !.state.active_list = Tail(al)]]
                      ELSE [result |-> Some(front), s |-> s]
                 ELSE [result |-> None, s |-> s]
        ELSE [result |-> None, s |-> s]

(* RaiseException without the flush of the integer queue.                  *)
RaiseException_NoQueueFlush(s, result) ==
    [s EXCEPT !.state.exception = TRUE,
              !.state.exception_pc = result.pc,
              !.alus = [i \in 1 .. NumAlus |-> AluReset(s.alus[i])]]

(* RaiseException without the reset of the units.                          *)
RaiseException_NoAluReset(s, result) ==
    [s EXCEPT !.state.exception = TRUE,
              !.state.exception_pc = result.pc,
              !.state.integer_queue = << >>]

(* Exception entry: set the flags, reset the units, flush the queue.       *)
RaiseException(s, result) ==
    [s EXCEPT !.state.exception = TRUE,
              !.state.exception_pc = result.pc,
              !.alus = [i \in 1 .. NumAlus |-> AluReset(s.alus[i])],
              !.state.integer_queue = << >>]

(* The loop over the forwarding latches that closes a normal commit.       *)
(* A commit stage that never marks a forwarded instruction done.           *)
CommitMarkDone_Never(s) == s

CommitMarkDone(s) ==
    LET fwd(i) == s.alus[i].forwarding
        hit(e) == \E i \in 1 .. NumAlus : IsSome(fwd(i)) /\ Unwrap(fwd(i)).pc = e.pc
        exc(e) == \E i \in 1 .. NumAlus :
                      IsSome(fwd(i)) /\ Unwrap(fwd(i)).pc = e.pc /\ Unwrap(fwd(i)).exception
        al == s.state.active_list
    IN  [s EXCEPT !.state.active_list =
            [j \in 1 .. Len(al) |->
                IF hit(al[j])
                THEN [al[j] EXCEPT !.done = TRUE, !.exception = al[j].exception \/ exc(al[j])]
                ELSE al[j]]]

RECURSIVE CommitLoop(_, _)
CommitLoop(s, k) ==
    IF k = 0 THEN CommitMarkDone(s)
    ELSE Then(pop_ready_instr(s), LAMBDA r :
             IF ~IsSome(r.result) THEN CommitMarkDone(s)
             ELSE IF Unwrap(r.result).exception
                  THEN RaiseException(r.s, Unwrap(r.result))
                  ELSE Then([r.s EXCEPT !.state.free_list =
                                 Append(@, Unwrap(r.result).old_destination)],
                            LAMBDA t : CommitLoop(t, k - 1)))

(* commit that leaves exception mode in the cycle whose rollback empties   *)
(* the active list.                                                        *)
commit_ClearsAfterRollback(s) ==
    IF s.state.exception
    THEN IF Len(s.state.active_list) = 0
         THEN [s EXCEPT !.state.exception = FALSE]
         ELSE Then(Rollback(s, 4), LAMBDA t :
                  IF Len(t.state.active_list) = 0
                  THEN [t EXCEPT !.state.exception = FALSE] ELSE t)
    ELSE CommitLoop(s, 4)

commit(s) ==
    IF s.state.exception
    THEN IF Len(s.state.active_list) = 0
         THEN [s EXCEPT !.state.exception = FALSE]
         ELSE Rollback(s, 4)
    ELSE CommitLoop(s, 4)

-----------------------------------------------------------------------------
(* Simulator::issue                                                        *)

(* Set done and exception on the active-list entries with this pc.         *)
MarkException(al, pc) ==
    [j \in 1 .. Len(al) |->
        IF al[j].pc = pc THEN [al[j] EXCEPT !.done = TRUE, !.exception = TRUE] ELSE al[j]]

(* WakeUp that wakes operand B and forgets operand A.                      *)
WakeUp_OnlyB(entry, reg, val) ==
    IF entry.op_b_reg_tag = reg /\ ~entry.op_b_is_ready
    THEN [entry EXCEPT !.op_b_reg_tag = 0, !.op_b_is_ready = TRUE, !.op_b_value = val]
    ELSE entry

(* WakeUp that marks the operands ready without storing the value.         *)
WakeUp_DropValue(entry, reg, val) ==
    LET e1 == IF entry.op_b_reg_tag = reg /\ ~entry.op_b_is_ready
              THEN [entry EXCEPT !.op_b_reg_tag = 0, !.op_b_is_ready = TRUE]
              ELSE entry
    IN  IF e1.op_a_reg_tag = reg /\ ~e1.op_a_is_ready
        THEN [e1 EXCEPT !.op_a_reg_tag = 0, !.op_a_is_ready = TRUE]
        ELSE e1

(* Wake-up of one queue entry by a forwarded (reg, val): operand B, then A. *)
WakeUp(entry, reg, val) ==
    LET e1 == IF entry.op_b_reg_tag = reg /\ ~entry.op_b_is_ready
              THEN [entry EXCEPT !.op_b_reg_tag = 0, !.op_b_is_ready = TRUE, !.op_b_value = val]
              ELSE entry
    IN  IF e1.op_a_reg_tag = reg /\ ~e1.op_a_is_ready
        THEN [e1 EXCEPT !.op_a_reg_tag = 0, !.op_a_is_ready = TRUE, !.op_a_value = val]
        ELSE e1

IssueForwardOne(s, i) ==
    LET f == s.alus[i].forwarding
    IN  IF ~IsSome(f) THEN s
        ELSE LET t == Unwrap(f)
                 iq == s.state.integer_queue
             IN  IF t.exception
                 THEN [s EXCEPT !.state.active_list = MarkException(@, t.pc)]
                 ELSE [s EXCEPT !.state.integer_queue =
                                    [j \in 1 .. Len(iq) |-> WakeUp(iq[j], t.reg, t.val)],
                                !.state.busy_bit_table[t.reg] = FALSE]

RECURSIVE IssueForward(_, _)
IssueForward(s, i) ==
    IF i > NumAlus THEN s
    ELSE Then(IssueForwardOne(s, i), LAMBDA t : IssueForward(t, i + 1))

IsReady(entry) == entry.op_a_is_ready /\ entry.op_b_is_ready

IsNotReady(entry) == ~IsReady(entry)

(* IssueSelect that hands the youngest ready entry to the first unit.      *)
IssueSelect_YoungestFirst(s) ==
    LET iq == s.state.integer_queue
        ready == SelectSeq(iq, IsReady)
        n == IF Len(ready) < 4 THEN Len(ready) ELSE 4
    IN  [s EXCEPT !.state.integer_queue = SelectSeq(iq, IsNotReady),
                  !.alus = [i \in 1 .. NumAlus |->
                               IF i <= n
                               THEN [s.alus[i] EXCEPT !.instruction_queue =
                                        Append(@, ready[Len(ready) + 1 - i])]
                               ELSE s.alus[i]]]

(* The while loop that moves every ready entry out of the queue, and the   *)
(* loop that pushes the first min(4, |ready|) of them to the units.        *)
IssueSelect(s) ==
    LET iq == s.state.integer_queue
        ready == SelectSeq(iq, IsReady)
        n == IF Len(ready) < 4 THEN Len(ready) ELSE 4
    IN  [s EXCEPT !.state.integer_queue = SelectSeq(iq, IsNotReady),
                  !.alus = [i \in 1 .. NumAlus |->
                               IF i <= n
                               THEN [s.alus[i] EXCEPT !.instruction_queue = Append(@, ready[i])]
                               ELSE s.alus[i]]]

issue(s) ==
    IF s.state.exception THEN s
    ELSE Then(IssueForward(s, 1), LAMBDA t : IssueSelect(t))

-----------------------------------------------------------------------------
(* Simulator::rename_and_dispatch and Simulator::rename_registers          *)

(* RenameForwardOne that writes back a faulted result like any other.      *)
RenameForwardOne_WriteFault(s, i) ==
    LET f == s.alus[i].forwarding
    IN  IF ~IsSome(f) THEN s
        ELSE LET t == Unwrap(f)
             IN  [s EXCEPT !.state.active_list =
                               IF t.exception THEN MarkException(@, t.pc) ELSE @,
                           !.state.physical_register_file[t.reg] = t.val,
                           !.state.busy_bit_table[t.reg] = FALSE,
                           !.writer[t.reg] = t.pc]

(* RenameForwardOne that clears the busy bit and skips the register write. *)
RenameForwardOne_NoWrite(s, i) ==
    LET f == s.alus[i].forwarding
    IN  IF ~IsSome(f) THEN s
        ELSE LET t == Unwrap(f)
             IN  IF t.exception
                 THEN [s EXCEPT !.state.active_list = MarkException(@, t.pc)]
                 ELSE [s EXCEPT !.state.busy_bit_table[t.reg] = FALSE]

(* The loop over the forwarding latches that opens rename_and_dispatch.    *)
RenameForwardOne(s, i) ==
    LET f == s.alus[i].forwarding
    IN  IF ~IsSome(f) THEN s
        ELSE LET t == Unwrap(f)
             IN  IF t.exception
                 THEN [s EXCEPT !.state.active_list = MarkException(@, t.pc)]
                 ELSE [s EXCEPT !.state.physical_register_file[t.reg] = t.val,
                                !.state.busy_bit_table[t.reg] = FALSE,
                                !.writer[t.reg] = t.pc]

RECURSIVE RenameForward(_, _)
RenameForward(s, i) ==
    IF i > NumAlus THEN s
    ELSE Then(RenameForwardOne(s, i), LAMBDA t : RenameForward(t, i + 1))

(* BackpressureCond with the queue test alone.                             *)
BackpressureCond_QueueOnly(st, num_instr) ==
    Len(st.integer_queue) > QueueCap - num_instr

(* The backpressure test on the state and the number of decoded entries.   *)
BackpressureCond(st, num_instr) ==
    \/ Len(st.integer_queue) > QueueCap - num_instr
    \/ Len(st.active_list) > QueueCap - num_instr
    \/ Len(st.free_list) < num_instr

(* A source token after renaming: xN becomes p(map[N]), others are kept.   *)
RenameSrc(st, tok) ==
    IF tok.k = "x" THEN P(st.register_map_table[tok.n]) ELSE tok

(* rename_registers that leaves the new destination's busy bit alone.      *)
rename_registers_NoBusy(s, instr) ==
    LET st == s.state
        arch_reg == instr.dest
        old_dest == st.register_map_table[arch_reg]
    IN  IF Len(st.free_list) = 0
        THEN [s |-> [s EXCEPT !.panicked = TRUE], renamed |-> None]
        ELSE LET new_dest == Head(st.free_list)
             IN  [s |-> [s EXCEPT !.state.free_list = Tail(@),
                                  !.state.register_map_table[arch_reg] = new_dest],
                  renamed |-> Some([src1 |-> RenameSrc(st, instr.src1),
                                    src2 |-> RenameSrc(st, instr.src2),
                                    new_dest |-> new_dest, old_dest |-> old_dest,
                                    opcode |-> instr.op, pc |-> instr.pc,
                                    arch |-> arch_reg])]

(* rename_registers that reads the head of the free list and leaves it     *)
(* there.                                                                  *)
rename_registers_NoPop(s, instr) ==
    LET st == s.state
        arch_reg == instr.dest
        old_dest == st.register_map_table[arch_reg]
    IN  IF Len(st.free_list) = 0
        THEN [s |-> [s EXCEPT !.panicked = TRUE], renamed |-> None]
        ELSE LET new_dest == Head(st.free_list)
             IN  [s |-> [s EXCEPT !.state.register_map_table[arch_reg] = new_dest,
                                  !.state.busy_bit_table[new_dest] = TRUE],
                  renamed |-> Some([src1 |-> RenameSrc(st, instr.src1),
                                    src2 |-> RenameSrc(st, instr.src2),
                                    new_dest |-> new_dest, old_dest |-> old_dest,
                                    opcode |-> instr.op, pc |-> instr.pc,
                                    arch |-> arch_reg])]

(* rename_registers: the renamed instruction and the state after.  Popping *)
(* an empty free list is the panic of expect().                            *)
rename_registers(s, instr) ==
    LET st == s.state
        arch_reg == instr.dest
        old_dest == st.register_map_table[arch_reg]
    IN  IF Len(st.free_list) = 0
        THEN [s |-> [s EXCEPT !.panicked = TRUE], renamed |-> None]
        ELSE LET new_dest == Head(st.free_list)
             IN  [s |-> [s EXCEPT !.state.free_list = Tail(@),
                                  !.state.register_map_table[arch_reg] = new_dest,
                                  !.state.busy_bit_table[new_dest] = TRUE],
                  renamed |-> Some([src1 |-> RenameSrc(st, instr.src1),
                                    src2 |-> RenameSrc(st, instr.src2),
                                    new_dest |-> new_dest, old_dest |-> old_dest,
                                    opcode |-> instr.op, pc |-> instr.pc,
                                    arch |-> arch_reg])]

(* The map over the decoded instructions, in order.                        *)
RECURSIVE RenameAll(_, _, _)
RenameAll(s, instructions, acc) ==
    IF Len(instructions) = 0 \/ s.panicked THEN [s |-> s, renamed |-> acc]
    ELSE Then(rename_registers(s, Head(instructions)), LAMBDA r :
             RenameAll(r.s, Tail(instructions), acc \o r.renamed))

(* Ready state, tag and value of a renamed source.                         *)
OperandState(st, src) ==
    IF src.k # "p"
    THEN [ready |-> TRUE, tag |-> 0, val |-> src.n]
    ELSE IF st.busy_bit_table[src.n]
         THEN [ready |-> FALSE, tag |-> src.n, val |-> 0]
         ELSE [ready |-> TRUE, tag |-> 0, val |-> st.physical_register_file[src.n]]

QueueEntry(st, r) ==
    LET a == OperandState(st, r.src1)
        b == OperandState(st, r.src2)
    IN  [dest_register |-> r.new_dest,
         op_a_is_ready |-> a.ready, op_a_reg_tag |-> a.tag, op_a_value |-> a.val,
         op_b_is_ready |-> b.ready, op_b_reg_tag |-> b.tag, op_b_value |-> b.val,
         op_code |-> r.opcode, pc |-> r.pc]

NewActiveEntry(r) ==
    [done |-> FALSE, exception |-> FALSE, logical_destination |-> r.arch,
     old_destination |-> r.old_dest, pc |-> r.pc]

(* Dispatch that enqueues the instructions and adds no active-list entry.  *)
Dispatch_QueueOnly(s, renamed) ==
    [s EXCEPT !.state.integer_queue =
                  @ \o [j \in 1 .. Len(renamed) |-> QueueEntry(s.state, renamed[j])]]

(* The dispatch loop: one queue entry and one active-list entry each.      *)
Dispatch(s, renamed) ==
    [s EXCEPT !.state.integer_queue =
                  @ \o [j \in 1 .. Len(renamed) |-> QueueEntry(s.state, renamed[j])],
              !.state.active_list =
                  @ \o [j \in 1 .. Len(renamed) |-> NewActiveEntry(renamed[j])]]

RenameGroup(s) ==
    Then(RenameAll([s EXCEPT !.state.backpressure = FALSE, !.state.decoded_pcs = << >>],
                   s.state.decoded_pcs, << >>),
         LAMBDA r : IF r.s.panicked THEN r.s ELSE Dispatch(r.s, r.renamed))

rename_and_dispatch(s) ==
    IF s.state.exception THEN s
    ELSE Then(RenameForward(s, 1), LAMBDA s1 :
             LET num_instr == Len(s1.state.decoded_pcs)
             IN  IF BackpressureCond(s1.state, num_instr)
                 THEN [s1 EXCEPT !.state.backpressure = TRUE]
                 ELSE RenameGroup(s1))

-----------------------------------------------------------------------------
(* Simulator::fetch_and_decode                                             *)

Decode(pc, line) ==
    [pc |-> pc, op |-> TrimI(line.op), dest |-> line.dest,
     src1 |-> line.src1, src2 |-> line.src2]

(* FetchOne that does not step over a line with fewer than four tokens.    *)
FetchOne_StallOnMalformed(s) ==
    LET pc == s.state.pc
    IN  IF pc = Len(program) THEN s
        ELSE LET line == program[pc + 1]
             IN  IF line.ntok < 4
                 THEN s
                 ELSE [s EXCEPT !.state.pc = pc + 1,
                                !.state.decoded_pcs = Append(@, Decode(pc, line))]

(* One iteration of the fetch loop; at the end of the program it breaks.   *)
FetchOne(s) ==
    LET pc == s.state.pc
    IN  IF pc = Len(program) THEN s
        ELSE LET line == program[pc + 1]
             IN  IF line.ntok < 4
                 THEN [s EXCEPT !.state.pc = pc + 1]
                 ELSE [s EXCEPT !.state.pc = pc + 1,
                                !.state.decoded_pcs = Append(@, Decode(pc, line))]

RECURSIVE FetchLoop(_, _)
FetchLoop(s, k) ==
    IF k = 0 THEN s ELSE Then(FetchOne(s), LAMBDA t : FetchLoop(t, k - 1))

(* fetch_and_decode that flushes the decode buffer in exception mode and   *)
(* leaves the PC where it is.                                              *)
fetch_and_decode_KeepPC(s) ==
    IF s.panicked THEN s
    ELSE IF s.state.exception
         THEN [s EXCEPT !.state.decoded_pcs = << >>]
         ELSE IF s.state.backpressure \/ s.state.pc = ExceptionAddr THEN s
              ELSE FetchLoop(s, 4)

(* fetch_and_decode that fetches whether or not backpressure is set.       *)
fetch_and_decode_IgnoreBackpressure(s) ==
    IF s.panicked THEN s
    ELSE IF s.state.exception
         THEN [s EXCEPT !.state.pc = ExceptionAddr, !.state.decoded_pcs = << >>]
         ELSE IF s.state.pc = ExceptionAddr THEN s
              ELSE FetchLoop(s, 4)

fetch_and_decode(s) ==
    IF s.panicked THEN s
    ELSE IF s.state.exception
         THEN [s EXCEPT !.state.pc = ExceptionAddr, !.state.decoded_pcs = << >>]
         ELSE IF s.state.backpressure \/ s.state.pc = ExceptionAddr THEN s
              ELSE FetchLoop(s, 4)

-----------------------------------------------------------------------------
(* Simulator::simulate_cycle, under the loop of main                       *)

CycleOf(s) ==
    Then(execute(s), LAMBDA s1 :
    Then(commit(s1), LAMBDA s2 :
    Then(issue(s2), LAMBDA s3 :
    Then(rename_and_dispatch(s3), LAMBDA s4 :
    fetch_and_decode(s4)))))

simulate_cycle ==
    /\ ~done
    /\ ~panicked
    /\ \E s \in { CycleOf(Sim) } :
           /\ state' = s.state
           /\ alus' = s.alus
           /\ writer' = s.writer
           /\ panicked' = s.panicked
    /\ UNCHANGED program

Next == simulate_cycle

Spec == Init /\ [][Next]_vars

(* main calls simulate_cycle until done: a cycle that can change the state *)
(* is eventually run.                                                      *)
FairSpec == Spec /\ WF_vars(Next)

-----------------------------------------------------------------------------
(* Reference: the program run one instruction at a time, in program order, *)
(* from all-zero registers, with wrapping unsigned arithmetic.  regs are   *)
(* the architectural values, fault the pc of the first divu/remu with a    *)
(* zero divisor (NoFault if none); execution stops at the fault.  map and  *)
(* free follow the renaming an in-order machine does: the destination gets *)
(* the head of the free list and the old mapping goes to its tail.         *)

NoFault == 0 - 1

SeqOp(op, a, b) ==
    CASE op \in {"add", "addi"} -> (a + b) % Modulus
      [] op = "sub"  -> ((a - b) + Modulus) % Modulus
      [] op = "mulu" -> (a * b) % Modulus
      [] op = "divu" -> a \div b
      [] op = "remu" -> a % b

SeqFaults(op, b) == op \in {"divu", "remu"} /\ b = 0

SeqStart ==
    [regs |-> [a \in ArchRegs |-> 0],
     map |-> [a \in ArchRegs |-> a],
     free |-> [i \in 1 .. (NumPhys - NumArch) |-> NumArch + i - 1],
     fault |-> NoFault]

SeqStep(r, pc, line) ==
    IF r.fault # NoFault \/ line.ntok < 4 THEN r
    ELSE LET val(tok) == IF tok.k = "x" THEN r.regs[tok.n] ELSE tok.n
             a == val(line.src1)
             b == val(line.src2)
         IN  IF SeqFaults(line.op, b) THEN [r EXCEPT !.fault = pc]
             ELSE [r EXCEPT !.regs[line.dest] = SeqOp(line.op, a, b),
                            !.map[line.dest] = Head(r.free),
                            !.free = Append(Tail(r.free), r.map[line.dest])]

RECURSIVE SeqRun(_, _, _)
SeqRun(prog, pc, r) ==
    IF pc = Len(prog) THEN r ELSE SeqRun(prog, pc + 1, SeqStep(r, pc, prog[pc + 1]))

SeqFinal == SeqRun(program, 0, SeqStart)

WellFormed == \A i \in 1 .. Len(program) : program[i].ntok = 4

(* The values the program sees: PRF[map[N]].                               *)
ArchValue(N) == state.physical_register_file[state.register_map_table[N]]

(* The physical register allocated to active-list entry j: the old         *)
(* destination of the next younger entry with the same logical             *)
(* destination, or the current mapping if there is none.                   *)
AllocDest(st, j) ==
    LET al == st.active_list
        ld == al[j].logical_destination
        younger == { k \in (j + 1) .. Len(al) : al[k].logical_destination = ld }
    IN  IF younger = {}
        THEN st.register_map_table[ld]
        ELSE al[CHOOSE k \in younger : \A m \in younger : k <= m].old_destination

ActivePCs(st) == { st.active_list[j].pc : j \in 1 .. Len(st.active_list) }

QueuePCs(st) == { st.integer_queue[j].pc : j \in 1 .. Len(st.integer_queue) }

(* The instructions issue bound to the units in the cycle just run.        *)
BoundPCs(al) ==
    UNION { { al[i].instruction_queue[j].pc : j \in 1 .. Len(al[i].instruction_queue) } :
            i \in 1 .. NumAlus }

Occurrences(seq, x) == Cardinality({ i \in 1 .. Len(seq) : seq[i] = x })

-----------------------------------------------------------------------------
(* The final state the precise-exception contract describes.               *)
PreciseFinal ==
    /\ state.exception_pc = SeqFinal.fault
    /\ state.pc = ExceptionAddr
    /\ ~state.exception
    /\ Len(state.active_list) = 0
    /\ Len(state.integer_queue) = 0
    /\ Len(state.decoded_pcs) = 0
    /\ state.register_map_table = SeqFinal.map
    /\ \A N \in ArchRegs : ArchValue(N) = SeqFinal.regs[N]

(* C1: a program in which some divu/remu divides by zero ends its run, and *)
(* ends it with ExceptionPC the pc of the oldest faulting instruction, PC  *)
(* = 0x10000, Exception false, empty active list, queue and decoded        *)
(* buffer, and the map table and architectural values of the instructions  *)
(* older than the faulting one.                                            *)
C1_PreciseException ==
    (WellFormed /\ SeqFinal.fault # NoFault) => <>(done /\ PreciseFinal)

(* The same final state, wherever a run with a fault does end.             *)
C1_FinalWhenDone ==
    (WellFormed /\ SeqFinal.fault # NoFault /\ done) => PreciseFinal

(* C2: a well-formed program that reaches done without an exception       *)
(* leaves in PRF[map[N]], for every architectural register N, the value    *)
(* sequential execution gives xN.                                          *)
C2_SequentialSemantics ==
    (WellFormed /\ done /\ state.pc # ExceptionAddr)
        => \A N \in ArchRegs : ArchValue(N) = SeqFinal.regs[N]

(* A finished run, long enough to recycle physical registers, whose        *)
(* dependent instructions left a wrapped non-zero value.                   *)
C2_Witness ==
    /\ WellFormed /\ done /\ state.pc # ExceptionAddr
    /\ Len(program) > QueueCap
    /\ Len(program) > Modulus
    /\ state.register_map_table[1] # 1
    /\ ArchValue(1) # 0

(* C3: every run reaches a state in which done() is true.                  *)
C3_Termination == <>done

(* C4: an entry leaves the integer queue only by being bound to a unit in  *)
(* that cycle's issue stage, or by the flush at exception entry; at most   *)
(* four are bound per cycle.                                               *)
C4_LeavesOnlyWhenBound ==
    [][ LET left == QueuePCs(state) \ QueuePCs(state')
            flushed == state'.exception /\ ~state.exception
        IN  ~flushed => (left \subseteq BoundPCs(alus') /\ Cardinality(BoundPCs(alus')) <= 4)
      ]_vars

(* C5: every physical register occurs exactly once among the free list,    *)
(* the map-table targets and the old destinations of the active list; so   *)
(* the free list and the active list together hold 32 entries.             *)
C5_RegisterPartition ==
    /\ \A p \in PhysRegs :
          Occurrences(state.free_list, p)
          + Cardinality({ a \in ArchRegs : state.register_map_table[a] = p })
          + Cardinality({ j \in 1 .. Len(state.active_list) :
                             state.active_list[j].old_destination = p }) = 1
    /\ Len(state.free_list) + Len(state.active_list) = NumPhys - NumArch

(* In the middle of a rollback: entries are left, and the last two         *)
(* registers freed are consecutive allocations returned in reverse.        *)
C5_Witness ==
    /\ state.exception
    /\ Len(state.active_list) > 0
    /\ LET n == Len(state.free_list)
       IN  n >= 2 /\ state.free_list[n - 1] = state.free_list[n] + 1

(* C6 as stated: busy[p] iff some active-list entry allocated p and is not *)
(* done.                                                                   *)
C6_BusyIffNotDone ==
    \A p \in PhysRegs :
        state.busy_bit_table[p] <=>
            \E j \in 1 .. Len(state.active_list) :
                AllocDest(state, j) = p /\ ~state.active_list[j].done

(* C6, amended: busy[p] iff some active-list entry allocated p and is not  *)
(* done or is marked as an exception.                                      *)
C6_BusyIffPending ==
    \A p \in PhysRegs :
        state.busy_bit_table[p] <=>
            \E j \in 1 .. Len(state.active_list) :
                /\ AllocDest(state, j) = p
                /\ (~state.active_list[j].done \/ state.active_list[j].exception)

(* A faulted entry, done, whose register is still busy, next to a register *)
(* that a completed instruction has released.                              *)
C6_Witness ==
    /\ \E j \in 1 .. Len(state.active_list) :
          /\ state.active_list[j].done /\ state.active_list[j].exception
          /\ state.busy_bit_table[AllocDest(state, j)]
    /\ \E j \in 1 .. Len(state.active_list) :
          /\ state.active_list[j].done /\ ~state.active_list[j].exception
          /\ ~state.busy_bit_table[AllocDest(state, j)]

(* C7: a result forwarded with the exception flag is not written to the   *)
(* register file and its register stays busy, cycle after cycle, until the *)
(* rollback step that pops the instruction's active-list entry clears the  *)
(* bit; and from exception entry on no register-file entry changes.        *)
C7_NoPartialWrite ==
    [][ LET prf == state.physical_register_file
            kept(p) == /\ state'.physical_register_file[p] = prf[p]
                       /\ writer'[p] = writer[p]
        IN  /\ \A i \in 1 .. NumAlus :
                  (IsSome(alus'[i].forwarding) /\ Unwrap(alus'[i].forwarding).exception)
                      => (kept(Unwrap(alus'[i].forwarding).reg)
                          /\ state'.busy_bit_table[Unwrap(alus'[i].forwarding).reg])
            /\ \A j \in 1 .. Len(state.active_list) :
                  state.active_list[j].exception =>
                      IF state.active_list[j].pc \in ActivePCs(state')
                      THEN kept(AllocDest(state, j))
                           /\ state'.busy_bit_table[AllocDest(state, j)]
                      ELSE state.exception
                           /\ kept(AllocDest(state, j))
                           /\ ~state'.busy_bit_table[AllocDest(state, j)]
            /\ (state'.exception \/ state.pc = ExceptionAddr) =>
                  (state'.physical_register_file = prf /\ writer' = writer)
      ]_vars

(* During a rollback, a faulted entry not yet popped: its register is busy *)
(* and was never written, while older instructions did write theirs.       *)
C7_Witness ==
    /\ state.exception
    /\ \E j \in 1 .. Len(state.active_list) :
          /\ state.active_list[j].exception
          /\ state.busy_bit_table[AllocDest(state, j)]
          /\ writer[AllocDest(state, j)] = NoWriter
    /\ \E p \in PhysRegs : writer[p] # NoWriter

(* A finished run that raised an exception.                                *)
FinalAfterException == done /\ state.pc = ExceptionAddr

(* C8 as stated: in the final snapshot of a run that raised an exception   *)
(* no physical register holds a value written by the faulting instruction  *)
(* or a younger one.                                                       *)
C8_NoYoungerWrite ==
    FinalAfterException => \A p \in PhysRegs : writer[p] < state.exception_pc

(* C8, amended: in that snapshot no physical register the map table names  *)
(* holds a value written by the faulting instruction or a younger one.     *)
C8_NoYoungerWriteMapped ==
    FinalAfterException =>
        \A N \in ArchRegs : writer[state.register_map_table[N]] < state.exception_pc

(* A finished run in which an older instruction's value is mapped and a    *)
(* younger instruction's value is left in an unmapped register.            *)
C8_Witness ==
    /\ FinalAfterException
    /\ \E N \in ArchRegs : writer[state.register_map_table[N]] # NoWriter
    /\ \E p \in PhysRegs : writer[p] > state.exception_pc

(* C9: in every snapshot with Exception = true, PC = 0x10000, the integer  *)
(* queue and the decoded buffer are empty and the four units are reset.    *)
C9_ExceptionState ==
    state.exception =>
        /\ state.pc = ExceptionAddr
        /\ Len(state.integer_queue) = 0
        /\ Len(state.decoded_pcs) = 0
        /\ \A i \in 1 .. NumAlus :
              /\ Len(alus[i].instruction_queue) = 0
              /\ ~IsSome(alus[i].pipeline_stage1)
              /\ ~IsSome(alus[i].forwarding)

(* Exception raised while younger instructions were in flight, and the     *)
(* program not fetched to its end.                                         *)
C9_Witness ==
    /\ state.exception
    /\ Len(state.active_list) > 4
    /\ Len(program) > state.active_list[Len(state.active_list)].pc + 1

(* C10: the active list and the integer queue never hold more than 32      *)
(* entries, and rename never pops an empty free list.                      *)
C10_BoundedBuffers ==
    /\ Len(state.active_list) <= QueueCap
    /\ Len(state.integer_queue) <= QueueCap
    /\ ~panicked

(* Rename held back with the active list full.                             *)
C10_Witness ==
    /\ state.backpressure
    /\ Len(state.active_list) = QueueCap
    /\ Len(state.free_list) = 0
    /\ Len(state.decoded_pcs) > 0

(* C11: every integer-queue entry whose operand A (or B) is not ready      *)
(* carries a tag that names a physical register whose busy bit is set.     *)
C11_WaitingTagBusy ==
    \A j \in 1 .. Len(state.integer_queue) :
        LET e == state.integer_queue[j]
        IN  /\ ~e.op_a_is_ready => state.busy_bit_table[e.op_a_reg_tag]
            /\ ~e.op_b_is_ready => state.busy_bit_table[e.op_b_reg_tag]

(* An entry that waits on both operands, after some result was written.    *)
C11_Witness ==
    /\ \E j \in 1 .. Len(state.integer_queue) :
          /\ ~state.integer_queue[j].op_a_is_ready
          /\ ~state.integer_queue[j].op_b_is_ready
          /\ state.busy_bit_table[state.integer_queue[j].op_a_reg_tag]
    /\ \E p \in PhysRegs : writer[p] # NoWriter

PCSorted(al) == \A i, j \in 1 .. Len(al) : i < j => al[i].pc < al[j].pc

(* The number of entries of the active list of this state that are gone    *)
(* from the next one.                                                      *)
LeftActive == Cardinality({ j \in 1 .. Len(state.active_list) :
                               state.active_list[j].pc \notin ActivePCs(state') })

(* C12: the active list is sorted by ascending PC after every cycle; a     *)
(* normal-mode commit retires entries from the head only, at most four,    *)
(* stops at the first entry that is not done, retires only entries with    *)
(* done = true and exception = false, and appends their old destinations   *)
(* in that order to the tail of the free list.                             *)
C12_InOrderCommit ==
    [][ LET al == state.active_list
            k == LeftActive
            grown == state.free_list \o [j \in 1 .. k |-> al[j].old_destination]
        IN  /\ PCSorted(state'.active_list)
            /\ ~state.exception =>
                  /\ k <= 4
                  /\ \A j \in 1 .. Len(al) : (al[j].pc \notin ActivePCs(state')) <=> (j <= k)
                  /\ \A j \in 1 .. k : al[j].done /\ ~al[j].exception
                  /\ (k < 4 /\ k < Len(al)) => (~al[k + 1].done \/ al[k + 1].exception)
                  /\ \E n \in 0 .. Len(grown) :
                        state'.free_list = SubSeq(grown, n + 1, Len(grown))
      ]_vars

(* Commit has retired instructions (registers of the initial mapping are   *)
(* free) and has stopped at a head that is not done, with more behind it.  *)
C12_Witness ==
    /\ ~state.exception
    /\ \E i \in 1 .. Len(state.free_list) : state.free_list[i] < NumArch
    /\ Len(state.active_list) > 4
    /\ ~state.active_list[1].done
    /\ \E j \in 2 .. Len(state.active_list) : state.active_list[j].done

(* C13: in every state in which done() is true the integer queue is empty  *)
(* as well, so done() agrees with the termination condition that also      *)
(* asks for an empty issue queue.                                          *)
C13_DoneImpliesQueueEmpty ==
    done => Len(state.integer_queue) = 0

(* A run that ended after an exception raised with a long program in       *)
(* flight.                                                                 *)
C13_Witness ==
    /\ done
    /\ state.pc = ExceptionAddr
    /\ Len(program) > QueueCap
    /\ state.exception_pc > 0

(* Thirty-three consecutive addi lines, none reading another's result.     *)
Independent33 ==
    program = Rep(Line("addi", 1, X(0), Imm(1)), 33)

(* C14 as stated: for a program of 33 independent addi there is a cycle in *)
(* which |IntegerQueue| + |DecodedPCs| > 32 sets Backpressure.             *)
C14_BackpressureScenario ==
    Independent33 =>
        <>(/\ state.backpressure
           /\ Len(state.integer_queue) + Len(state.decoded_pcs) > QueueCap)

(* C14: for a program of 33 independent addi, Backpressure is false in     *)
(* every cycle, and neither |IntegerQueue| + |DecodedPCs| nor              *)
(* |ActiveList| + |DecodedPCs| ever exceeds 32.                            *)
C14_NoBackpressure ==
    Independent33 =>
        /\ ~state.backpressure
        /\ Len(state.integer_queue) + Len(state.decoded_pcs) <= QueueCap
        /\ Len(state.active_list) + Len(state.decoded_pcs) <= QueueCap

(* The whole program has been fetched, its tail is still in flight.        *)
C14_Witness ==
    /\ Independent33
    /\ state.pc = 33
    /\ Len(state.active_list) > 4
    /\ Len(state.integer_queue) > 0
    /\ ~state.backpressure

(* The non-exception results held by the forwarding latches of the units.  *)
Forwarded(al) ==
    { Unwrap(al[i].forwarding) :
        i \in { k \in 1 .. NumAlus :
                  IsSome(al[k].forwarding) /\ ~Unwrap(al[k].forwarding).exception } }

(* The instructions handed to the units by the issue stage of this cycle.  *)
BoundEntries(al) ==
    UNION { { al[i].instruction_queue[j] : j \in 1 .. Len(al[i].instruction_queue) } :
              i \in 1 .. NumAlus }

QueueEntries(st) == { st.integer_queue[j] : j \in 1 .. Len(st.integer_queue) }

(* Operand A, or B, of an entry holds the value val and is ready.          *)
WokenA(e, val) == e.op_a_is_ready /\ e.op_a_value = val /\ e.op_a_reg_tag = 0

WokenB(e, val) == e.op_b_is_ready /\ e.op_b_value = val /\ e.op_b_reg_tag = 0

(* C15: in the cycle in which a forwarding latch holds a non-exception     *)
(* (reg, val), the register file holds val at reg, busy[reg] is false,     *)
(* every queue entry that waited on reg has that operand ready with val    *)
(* and tag 0, an instruction renamed in that cycle that reads reg is       *)
(* enqueued ready with val, and no entry stays not-ready on reg.           *)
C15_WakeUpNeverLost ==
    [][ \A t \in Forwarded(alus') :
          LET after == QueueEntries(state') \cup BoundEntries(alus')
              dec == state.decoded_pcs
              reads(j, tok) ==
                  /\ tok.k = "x"
                  /\ state.register_map_table[tok.n] = t.reg
                  /\ \A i \in 1 .. (j - 1) : dec[i].dest # tok.n
          IN  /\ state'.physical_register_file[t.reg] = t.val
              /\ ~state'.busy_bit_table[t.reg]
              /\ \A e \in QueueEntries(state) : \A e2 \in after :
                    e2.pc = e.pc =>
                       /\ (~e.op_a_is_ready /\ e.op_a_reg_tag = t.reg) => WokenA(e2, t.val)
                       /\ (~e.op_b_is_ready /\ e.op_b_reg_tag = t.reg) => WokenB(e2, t.val)
              /\ \A j \in 1 .. Len(dec) : \A e2 \in after :
                    e2.pc = dec[j].pc =>
                       /\ reads(j, dec[j].src1) => WokenA(e2, t.val)
                       /\ reads(j, dec[j].src2) => WokenB(e2, t.val)
              /\ \A e2 \in QueueEntries(state') :
                    /\ ~e2.op_a_is_ready => e2.op_a_reg_tag # t.reg
                    /\ ~e2.op_b_is_ready => e2.op_b_reg_tag # t.reg
      ]_vars

(* A latch holds a non-zero result; a younger queue entry has it as        *)
(* operand B while it still waits for operand A; and the last instruction  *)
(* of the program, renamed in this cycle, is enqueued with it.             *)
C15_Witness ==
    \E t \in Forwarded(alus) : \E e, r \in QueueEntries(state) :
        /\ t.val # 0
        /\ e.pc > t.pc
        /\ WokenB(e, t.val)
        /\ ~e.op_a_is_ready
        /\ state.physical_register_file[t.reg] = t.val
        /\ r.pc = Len(program) - 1
        /\ program[Len(program)].src1 = X(1)
        /\ state.register_map_table[1] = t.reg
        /\ WokenA(r, t.val)
        /\ WokenB(r, t.val)
(* The queue entries of this cycle's issue stage that left the queue       *)
(* without being bound to a unit: they were ready, and were not chosen.    *)
ReadyNotBound ==
    { e \in QueueEntries(state) :
        e.pc \notin QueuePCs(state') /\ e.pc \notin BoundPCs(alus') }

(* C16: in every issue stage the instructions bound to the units are the   *)
(* ready queue entries with the smallest PCs, bound in ascending PC order  *)
(* to units 0..3; no ready entry left unbound is older than a bound one.   *)
C16_OldestFirstIssue ==
    [][ LET q(i) == alus'[i].instruction_queue
            n == Cardinality({ i \in 1 .. NumAlus : Len(q(i)) > 0 })
        IN  /\ \A i \in 1 .. NumAlus : Len(q(i)) = IF i <= n THEN 1 ELSE 0
            /\ \A i, j \in 1 .. n : i < j => q(i)[1].pc < q(j)[1].pc
            /\ \A i \in 1 .. n :
                  /\ IsReady(q(i)[1])
                  /\ q(i)[1].pc \in QueuePCs(state)
            /\ \A e \in QueueEntries(state') : e.pc \in QueuePCs(state) => ~IsReady(e)
            /\ \A e \in ReadyNotBound : \A i \in 1 .. n : q(i)[1].pc < e.pc
            /\ (~state'.exception /\ ReadyNotBound # {}) => n = 4
      ]_vars

(* All four units were handed an instruction while an older entry, not     *)
(* ready, stays in the queue.                                              *)
C16_Witness ==
    /\ \A i \in 1 .. NumAlus : Len(alus[i].instruction_queue) = 1
    /\ \E e \in QueueEntries(state) :
          /\ ~IsReady(e)
          /\ e.pc < alus[1].instruction_queue[1].pc

(* The PCs held by the first pipeline stages, and by the forwarding        *)
(* latches, of the units.                                                  *)
Stage1PCs(al) ==
    { Unwrap(al[i].pipeline_stage1).pc : i \in { k \in 1 .. NumAlus : IsSome(al[k].pipeline_stage1) } }

LatchPCs(al) ==
    { Unwrap(al[i].forwarding).pc : i \in { k \in 1 .. NumAlus : IsSome(al[k].forwarding) } }

(* The active-list entries with the given pc.                              *)
ActiveAt(st, pc) ==
    { st.active_list[j] : j \in { k \in 1 .. Len(st.active_list) : st.active_list[k].pc = pc } }

(* The commit stage of this cycle entered exception mode and reset the     *)
(* units.                                                                  *)
ExceptionEntry == state'.exception /\ ~state.exception

(* C17: an instruction bound to a unit in cycle t is in the unit's first   *)
(* stage in cycle t+1 and in its forwarding latch in cycle t+2, in no      *)
(* earlier snapshot and for one cycle only, unless an exception entry      *)
(* resets the units; its active-list entry is marked done in cycle t+2,    *)
(* still in the list, so it commits in cycle t+3 at the earliest.          *)
C17_TwoCycleLatency ==
    [][ /\ ~ExceptionEntry =>
              \A i \in 1 .. NumAlus :
                 /\ Len(alus[i].instruction_queue) > 0 =>
                       /\ IsSome(alus'[i].pipeline_stage1)
                       /\ Unwrap(alus'[i].pipeline_stage1).pc = alus[i].instruction_queue[1].pc
                 /\ IsSome(alus[i].pipeline_stage1) =>
                       /\ alus'[i].forwarding = alus[i].pipeline_stage1
                       /\ \E a \in ActiveAt(state', Unwrap(alus[i].pipeline_stage1).pc) : a.done
        /\ \A i \in 1 .. NumAlus :
              /\ IsSome(alus'[i].forwarding) => alus'[i].forwarding = alus[i].pipeline_stage1
              /\ IsSome(alus'[i].pipeline_stage1) =>
                    /\ Len(alus[i].instruction_queue) > 0
                    /\ Unwrap(alus'[i].pipeline_stage1).pc = alus[i].instruction_queue[1].pc
              /\ IsSome(alus[i].forwarding) =>
                    Unwrap(alus[i].forwarding).pc \notin LatchPCs(alus')
        /\ BoundPCs(alus') \cap (Stage1PCs(alus') \cup LatchPCs(alus')) = {}
        /\ Stage1PCs(alus') \cap LatchPCs(alus') = {}
        /\ \A pc \in BoundPCs(alus') \cup Stage1PCs(alus') :
              /\ ActiveAt(state', pc) # {}
              /\ \A a \in ActiveAt(state', pc) : ~a.done
      ]_vars

(* A unit with an instruction in each of its three places: the one on the  *)
(* latch is marked done and still in the active list, the others are not   *)
(* done.                                                                   *)
C17_Witness ==
    \E i \in 1 .. NumAlus :
        /\ Len(alus[i].instruction_queue) = 1
        /\ IsSome(alus[i].pipeline_stage1)
        /\ IsSome(alus[i].forwarding)
        /\ \E a \in ActiveAt(state, Unwrap(alus[i].forwarding).pc) : a.done
        /\ \E a \in ActiveAt(state, Unwrap(alus[i].pipeline_stage1).pc) : ~a.done
        /\ Unwrap(alus[i].forwarding).pc < Unwrap(alus[i].pipeline_stage1).pc

(* The number of entries at the head of the active list that a normal      *)
(* commit retires: done, without exception, four at most.                  *)
RECURSIVE Retirable(_, _)
Retirable(al, k) ==
    IF k < 4 /\ k < Len(al) /\ al[k + 1].done /\ ~al[k + 1].exception
    THEN Retirable(al, k + 1) ELSE k

(* C18: a normal commit that finds a done entry with exception = true at   *)
(* the head sets Exception and ExceptionPC to its PC and does not pop it;  *)
(* every cycle with Exception set and a non-empty active list pops         *)
(* min(4, |ActiveList|) entries from the tail, restores the map of each to *)
(* its old destination, appends the register mapped there before to the    *)
(* free list and clears its busy bit; Exception is cleared only in a cycle *)
(* whose commit finds the active list empty.                               *)
C18_RollbackProtocol ==
    [][ LET al == state.active_list
            k == Retirable(al, 0)
            found == k < 4 /\ k < Len(al) /\ al[k + 1].exception
            m == IF Len(al) < 4 THEN Len(al) ELSE 4
            popped(a) == { j \in (Len(al) - m + 1) .. Len(al) : al[j].logical_destination = a }
        IN  /\ (~state.exception /\ found) =>
                  /\ state'.exception
                  /\ state'.exception_pc = al[k + 1].pc
                  /\ state'.active_list = SubSeq(al, k + 1, Len(al))
            /\ (~state.exception /\ ~found) => ~state'.exception
            /\ (state.exception /\ Len(al) > 0) =>
                  /\ state'.exception
                  /\ state'.exception_pc = state.exception_pc
                  /\ state'.active_list = SubSeq(al, 1, Len(al) - m)
                  /\ state'.free_list =
                        state.free_list \o [j \in 1 .. m |-> AllocDest(state, Len(al) + 1 - j)]
                  /\ \A j \in 1 .. m : ~state'.busy_bit_table[AllocDest(state, Len(al) + 1 - j)]
                  /\ \A a \in ArchRegs :
                        state'.register_map_table[a] =
                           IF popped(a) = {} THEN state.register_map_table[a]
                           ELSE al[CHOOSE j \in popped(a) : \A i \in popped(a) : j <= i].old_destination
            /\ (state.exception /\ Len(al) = 0) => ~state'.exception
      ]_vars

(* Exception mode after a rollback cycle: the free list ends with two      *)
(* registers in reverse order of allocation, not busy, and entries remain. *)
C18_Witness ==
    LET n == Len(state.free_list)
    IN  /\ state.exception
        /\ Len(state.active_list) > 0
        /\ state.active_list[1].pc = state.exception_pc
        /\ state.active_list[1].exception
        /\ n > 2
        /\ state.free_list[n] >= NumArch
        /\ state.free_list[n - 1] = state.free_list[n] + 1
        /\ ~state.busy_bit_table[state.free_list[n]]

(* The simulator at the start of this cycle's rename stage.                *)
BeforeRename ==
    Then(execute(Sim), LAMBDA s1 : Then(commit(s1), LAMBDA s2 : issue(s2)))

(* C19: in every non-exception cycle, with n = |DecodedPCs| at the start   *)
(* of rename, Backpressure is set to (|IntegerQueue| + n > 32) or          *)
(* (|ActiveList| + n > 32) or (|FreeList| < n); when it is set, rename     *)
(* leaves DecodedPCs, the map table, the free list, the active list and    *)
(* the integer queue as they were and fetch leaves PC and DecodedPCs, so   *)
(* the same decode group is presented to rename in the next cycle.         *)
C19_BackpressureRule ==
    [][ ~state'.exception =>
          \E b \in { BeforeRename } :
             LET st == b.state
                 n == Len(st.decoded_pcs)
             IN  /\ state'.backpressure <=>
                       \/ Len(st.integer_queue) + n > 32
                       \/ Len(st.active_list) + n > 32
                       \/ Len(st.free_list) < n
                 /\ state'.backpressure =>
                       /\ state'.decoded_pcs = st.decoded_pcs
                       /\ state'.decoded_pcs = state.decoded_pcs
                       /\ state'.register_map_table = st.register_map_table
                       /\ state'.free_list = st.free_list
                       /\ state'.active_list = st.active_list
                       /\ state'.integer_queue = st.integer_queue
                       /\ state'.pc = state.pc
      ]_vars

(* Backpressure is set: a full decode group is held back, the active list  *)
(* has no room for it, and the program has more lines to fetch.            *)
C19_Witness ==
    /\ state.backpressure
    /\ ~state.exception
    /\ Len(state.decoded_pcs) = 4
    /\ Len(state.active_list) + Len(state.decoded_pcs) > QueueCap
    /\ Len(state.integer_queue) > NumAlus
    /\ state.pc = state.decoded_pcs[4].pc + 1
    /\ state.pc < Len(program)

(* The instructions in flight, each as its pc and destination register:    *)
(* the queue entries, the instructions in the units, and the contents of   *)
(* the first stages and of the forwarding latches.                         *)
InFlight ==
    { [pc |-> e.pc, reg |-> e.dest_register] : e \in QueueEntries(state) \cup BoundEntries(alus) }
    \cup { [pc |-> Unwrap(alus[i].pipeline_stage1).pc, reg |-> Unwrap(alus[i].pipeline_stage1).reg] :
             i \in { k \in 1 .. NumAlus : IsSome(alus[k].pipeline_stage1) } }
    \cup { [pc |-> Unwrap(alus[i].forwarding).pc, reg |-> Unwrap(alus[i].forwarding).reg] :
             i \in { k \in 1 .. NumAlus : IsSome(alus[k].forwarding) } }

(* C20: no two in-flight instructions that coexist (queue entries,         *)
(* instructions in the units, latch contents) have the same destination    *)
(* register, and no two forwarding latches name the same register.         *)
C20_DistinctDestinations ==
    /\ \A x, y \in InFlight : x.reg = y.reg => x.pc = y.pc
    /\ \A i, j \in 1 .. NumAlus :
          (i # j /\ IsSome(alus[i].forwarding) /\ IsSome(alus[j].forwarding)) =>
              Unwrap(alus[i].forwarding).reg # Unwrap(alus[j].forwarding).reg
    /\ \A i, j \in 1 .. Len(state.integer_queue) :
          i # j => state.integer_queue[i].dest_register # state.integer_queue[j].dest_register

(* Two latches hold results while the queue is not empty and a register    *)
(* that was freed by a commit is a destination again.                      *)
C20_Witness ==
    /\ IsSome(alus[1].forwarding)
    /\ IsSome(alus[2].forwarding)
    /\ Len(state.integer_queue) > 1
    /\ \E x \in InFlight : x.reg < NumArch
    /\ Cardinality(InFlight) > NumAlus

(* C21: in every cycle in which neither Backpressure nor Exception is set  *)
(* and PC is not 0x10000, fetch advances PC by min(4, |program| - PC) and  *)
(* DecodedPCs receives, in order, one entry with pc equal to its program   *)
(* index for each of those lines that has four tokens or more; shorter     *)
(* lines add no entry; PC never exceeds |program| unless it is 0x10000.    *)
C21_FetchProgress ==
    [][ /\ (~state'.exception /\ ~state'.backpressure /\ state.pc # ExceptionAddr) =>
              LET left == Len(program) - state.pc
                  k == IF left < 4 THEN left ELSE 4
                  ok(p) == program[p + 1].ntok >= 4
                  kept == SelectSeq([i \in 1 .. k |-> state.pc + i - 1], ok)
                  dec == state'.decoded_pcs
              IN  /\ state'.pc = state.pc + k
                  /\ Len(dec) = Len(kept)
                  /\ \A j \in 1 .. Len(kept) :
                        /\ dec[j].pc = kept[j]
                        /\ dec[j].op = TrimI(program[kept[j] + 1].op)
                        /\ dec[j].dest = program[kept[j] + 1].dest
                        /\ dec[j].src1 = program[kept[j] + 1].src1
                        /\ dec[j].src2 = program[kept[j] + 1].src2
        /\ state.pc <= Len(program) \/ state.pc = ExceptionAddr
        /\ state'.pc <= Len(program) \/ state'.pc = ExceptionAddr
      ]_vars

(* The first line of the program is too short and was stepped over: the    *)
(* only decoded entry is the second line.                                  *)
C21_Witness ==
    /\ Len(program) = 2
    /\ program[1].ntok < 4
    /\ program[2].ntok >= 4
    /\ state.pc = 2
    /\ Len(state.decoded_pcs) = 1
    /\ state.decoded_pcs[1].pc = 1

(* Exception was raised in this cycle or in an earlier one.                *)
RaisedBefore == state.exception \/ state.pc = ExceptionAddr

(* C22: from the cycle in which Exception is raised on, also after it is   *)
(* cleared again, PC is 0x10000, DecodedPCs and the integer queue are      *)
(* empty, no entry is added to the active list, and ExceptionPC does not   *)
(* change.                                                                 *)
C22_NoNewWorkAfterException ==
    [][ /\ (state'.exception \/ RaisedBefore) =>
              /\ state'.pc = ExceptionAddr
              /\ state'.decoded_pcs = << >>
              /\ state'.integer_queue = << >>
              /\ ActivePCs(state') \subseteq ActivePCs(state)
              /\ Len(state'.active_list) <= Len(state.active_list)
        /\ RaisedBefore =>
              /\ state'.exception_pc = state.exception_pc
              /\ state'.exception => state.exception
      ]_vars

(* Exception was raised by the first lines and is cleared again; most of   *)
(* the program was never fetched and nothing is left in the pipeline.      *)
C22_Witness ==
    /\ ~state.exception
    /\ state.pc = ExceptionAddr
    /\ state.exception_pc < 4
    /\ Len(program) > QueueCap
    /\ state.decoded_pcs = << >>
    /\ state.integer_queue = << >>
    /\ state.active_list = << >>

(* The number of active-list entries with the given pc.                    *)
Tracked(pc) ==
    Cardinality({ j \in 1 .. Len(state.active_list) : state.active_list[j].pc = pc })

(* C23: after every cycle each queue entry, each instruction pending or    *)
(* computing in a unit and each non-empty forwarding latch has exactly one *)
(* active-list entry with its PC; for queue entries and instructions in a  *)
(* unit that entry is not done; the PCs of the active list are pairwise    *)
(* distinct; an empty active list means an empty queue and idle units.     *)
C23_InFlightTracked ==
    LET waiting == QueuePCs(state) \cup BoundPCs(alus) \cup Stage1PCs(alus)
        al == state.active_list
    IN  /\ \A pc \in waiting \cup LatchPCs(alus) : Tracked(pc) = 1
        /\ \A pc \in waiting : \A a \in ActiveAt(state, pc) : ~a.done
        /\ \A i, j \in 1 .. Len(al) : i # j => al[i].pc # al[j].pc
        /\ Len(al) = 0 =>
              /\ Len(state.integer_queue) = 0
              /\ \A i \in 1 .. NumAlus : alus[i] = AluNew

(* Instructions in the queue, in the units and on a latch at once, and an  *)
(* active-list entry more than those: one that is done and not retired, or *)
(* one that left the queue without a unit.                                 *)
C23_Witness ==
    /\ Len(state.integer_queue) > 0
    /\ BoundPCs(alus) # {}
    /\ Stage1PCs(alus) # {}
    /\ \E pc \in LatchPCs(alus) : \E a \in ActiveAt(state, pc) : a.done
    /\ Len(state.active_list) >
          Cardinality(QueuePCs(state) \cup BoundPCs(alus) \cup Stage1PCs(alus) \cup LatchPCs(alus))

====
